---- MODULE Spec2Model ----
(***************************************************************************)
(* Model of node-with-postgres: the HTTP server of index.js (startup,      *)
(* request handler, the one shared database session) and the command-line  *)
(* scripts setup-table.js, add-data.js and read-data.js, all working on    *)
(* the one table my_table.                                                  *)
(***************************************************************************)
EXTENDS Integers, Sequences, FiniteSets, TLC

\* ------------------------------------------------------------- bounds
NumRequests == 3
NumScripts == 3
\* The requests of the runs that are checked for liveness.
NumLiveRequests == 2
MaxTime == 1

Req == 1..NumRequests
Scr == 1..NumScripts

\* ------------------------------------------------------------- inputs
Names == {"john", "bob"}
\* The requests the model sends: req.method and req.url (the request target).
Requests == {<<"GET", "/">>, <<"GET", "/read">>, <<"POST", "/read?name=bob">>,
             <<"GET", "/add">>, <<"POST", "/add?name=bob">>,
             <<"DELETE", "/delete?name=bob">>, <<"GET", "//">>}
\* Messages of the errors a query can be rejected with.
ErrMsgs == {"Connection terminated unexpectedly"}
\* Arguments of the command-line scripts: process.argv[2], or none.
NoArg == "<undefined>"
Args == Names \cup {NoArg}
Kinds == {"setup-table", "add-data", "read-data"}

\* ------------------------------------------------------------- state
VARIABLES
  phase,        \* main of index.js: "start", "setup", "listening", "failed", "crashed"
  client,       \* the session main holds: "none" or "session"
  tableExists,  \* my_table exists in the database
  table,        \* the rows of my_table, in insertion order
  nextId,       \* the BIGSERIAL sequence of my_table.id
  now,          \* the clock
  pc,           \* per request: "new", "awaiting", "done", "rejected"
  method,       \* per request: req.method
  url,          \* per request: req.url
  startTime,    \* per request: the time it arrived
  code,         \* per request: the status written by res.writeHead (0: none)
  body,         \* per request: the object given to JSON.stringify in res.end
  queue,        \* the shared client's queries, in order; its head is the active one
  reply,        \* what the database answered the active query with, on its way
                \* to the handler that awaits it
  stalled,      \* the active query never completes
  log,          \* the console.log lines of jsonResponse
  before,       \* per request: the requests already answered when it arrived
  insertedId,   \* per request: the id of the row its INSERT created (0: none)
  failure,      \* per request: the message its query was rejected with ("": none)
  sawStall,     \* per request: the session was stalled when it arrived
  spc,          \* per script: "idle", "connected", "answered", "ending", "done",
                \* "crashed"
  skind,        \* per script: which script it is
  sarg,         \* per script: process.argv[2]
  squeried,     \* per script: its query completed successfully
  sended,       \* per script: client.end() was called
  sout,         \* per script: its console.log lines
  sres          \* per script: what the database answered its query with

srv == <<phase, client, pc, method, url, startTime, code, body, queue, reply, stalled,
         log, before, insertedId, failure, sawStall>>
db == <<tableExists, table, nextId>>
scripts == <<spc, skind, sarg, squeried, sended, sout, sres>>
vars == <<srv, db, now, scripts>>

\* ------------------------------------------------------------- helpers
IntStr(n) ==
  CASE n = 0 -> "0" [] n = 1 -> "1" [] n = 2 -> "2" [] n = 3 -> "3"
    [] n = 4 -> "4" [] n = 5 -> "5" [] n = 6 -> "6" [] n = 7 -> "7"
    [] n = 8 -> "8" [] OTHER -> "9"

\* new URL(req.url, 'http://localhost:8080'): the pathname and the 'name' search
\* parameter, or a TypeError (ok = FALSE) for a target that is no valid URL.
ParseURL(u) ==
  CASE u = "/" -> [ok |-> TRUE, pathname |-> "/", hasName |-> FALSE, name |-> ""]
    [] u = "/read" -> [ok |-> TRUE, pathname |-> "/read", hasName |-> FALSE, name |-> ""]
    [] u = "/read?name=bob" -> [ok |-> TRUE, pathname |-> "/read", hasName |-> TRUE, name |-> "bob"]
    [] u = "/add" -> [ok |-> TRUE, pathname |-> "/add", hasName |-> FALSE, name |-> ""]
    [] u = "/add?name=bob" -> [ok |-> TRUE, pathname |-> "/add", hasName |-> TRUE, name |-> "bob"]
    [] u = "/delete?name=bob" -> [ok |-> TRUE, pathname |-> "/delete", hasName |-> TRUE, name |-> "bob"]
    [] OTHER -> [ok |-> FALSE, pathname |-> "", hasName |-> FALSE, name |-> ""]

\* (a handler that ignores the query string)
NameOfIgnoringParam(p) == "john"
\* requestUrl.searchParams.get('name') ?? 'john'
NameOf(p) == IF p.hasName THEN p.name ELSE "john"

\* process.argv[2] ?? 'john'
ArgName(a) == IF a = NoArg THEN "john" ELSE a

\* ------------------------------------------------------------- the SQL
SelectAllSql == "SELECT * FROM my_table;"
SelectByNameSql == "SELECT * FROM my_table WHERE name = $1;"
InsertSql == "INSERT INTO my_table(name) VALUES($1);"

\* SELECT * FROM my_table;
SelectAll(t) == t

\* (a SELECT that lost its WHERE clause)
SelectByNameUnfiltered(t, n) == t
\* SELECT * FROM my_table WHERE name = $1;
SelectByName(t, n) == SelectSeq(t, LAMBDA row : row.name = n)

\* (a row whose id does not come from the sequence)
NewRowFixedId(n, id, time) == [id |-> 1, name |-> n, date |-> time]
\* The row INSERT INTO my_table(name) VALUES($1) creates: id from the BIGSERIAL
\* sequence, date from DEFAULT current_timestamp.
NewRow(n, id, time) == [id |-> id, name |-> n, date |-> time]

\* (a write that replaces the stored rows)
InsertRowReplacing(t, n, id, time) == <<NewRow(n, id, time)>>
\* INSERT INTO my_table(name) VALUES($1);
InsertRow(t, n, id, time) == Append(t, NewRow(n, id, time))

\* What a statement returns: {rows, rowCount}.
QueryRows(q, t) ==
  IF q.text = SelectAllSql THEN SelectAll(t)
  ELSE IF q.text = SelectByNameSql THEN SelectByName(t, q.params[1])
  ELSE <<>>

QueryRowCount(q, t) == IF q.text = InsertSql THEN 1 ELSE Len(QueryRows(q, t))

\* ------------------------------------------------------------- responses
NoBody == [type |-> "none"]
ArrayBody(rows) == [type |-> "array", rows |-> rows]
SuccessBody(rowCount, n) ==
  [type |-> "object", success |-> TRUE,
   message |-> "Inserted " \o IntStr(rowCount) \o " row with name '" \o n \o "'"]
NotFoundBody == [type |-> "string", text |-> "The requested route doesn't exist :("]
ErrorText(msg) == "Some error happened :(( -- (error: " \o msg \o ")"
\* (a catch block that answers without the error's message)
ErrorBodyWithoutMessage(msg) == [type |-> "string", text |-> "Some error happened :(("]
ErrorBody(msg) == [type |-> "string", text |-> ErrorText(msg)]

Done == {r \in Req : pc[r] = "done"}

\* ------------------------------------------------------------- Init
Init ==
  /\ phase = "start"
  /\ client = "none"
  /\ tableExists = FALSE
  /\ table = <<>>
  /\ nextId = 1
  /\ now = 0
  /\ pc = [r \in Req |-> "new"]
  /\ method = [r \in Req |-> ""]
  /\ url = [r \in Req |-> ""]
  /\ startTime = [r \in Req |-> 0]
  /\ code = [r \in Req |-> 0]
  /\ body = [r \in Req |-> NoBody]
  /\ queue = <<>>
  /\ reply = [st |-> "none", rows |-> <<>>, rowCount |-> 0, msg |-> ""]
  /\ stalled = FALSE
  /\ log = <<>>
  /\ before = [r \in Req |-> {}]
  /\ insertedId = [r \in Req |-> 0]
  /\ failure = [r \in Req |-> ""]
  /\ sawStall = [r \in Req |-> FALSE]
  /\ spc = [s \in Scr |-> "idle"]
  /\ skind = [s \in Scr |-> ""]
  /\ sarg = [s \in Scr |-> NoArg]
  /\ squeried = [s \in Scr |-> FALSE]
  /\ sended = [s \in Scr |-> FALSE]
  /\ sout = [s \in Scr |-> <<>>]
  /\ sres = [s \in Scr |-> [ok |-> FALSE, rows |-> <<>>, rowCount |-> 0]]

\* ------------------------------------------------------------- the clock
\* An instant is observed when it is stamped on a request or on a row.
Stamped(t) ==
  \/ \E r \in Req : pc[r] # "new" /\ startTime[r] = t
  \/ \E i \in 1..Len(table) : table[i].date = t

\* Time passes. Only the order of the stamped instants is observable, so the clock
\* is kept to them: it moves on once the present instant has been stamped.
Tick ==
  /\ now < MaxTime
  /\ Stamped(now)
  /\ now' = now + 1
  /\ UNCHANGED <<srv, db, scripts>>

\* ------------------------------------------------------------- main of index.js
\* await getClient() resolves: main goes on to setupTable(client).
GetClientOk ==
  /\ phase = "start"
  /\ phase' = "setup"
  /\ client' = "session"
  /\ UNCHANGED <<pc, method, url, startTime, code, body, queue, reply, stalled,
                 log, before, insertedId, failure, sawStall, db, now, scripts>>

\* (a startup that swallows the rejection and binds the listener)
StartupErrorSwallowed == "listening"
\* What main does when an awaited startup call rejects: the rejection leaves the
\* async function, and nothing after the await runs.
StartupRejected == "failed"

\* await getClient() rejects.
GetClientFail ==
  /\ phase = "start"
  /\ phase' = StartupRejected
  /\ UNCHANGED <<client, pc, method, url, startTime, code, body, queue, reply,
                 stalled, log, before, insertedId, failure, sawStall, db, now, scripts>>

\* await setupTable(client) resolves: CREATE TABLE IF NOT EXISTS ran, then the
\* server is created, the handler registered and the listener bound.
SetupTableOk ==
  /\ phase = "setup"
  /\ tableExists' = TRUE
  /\ phase' = "listening"
  /\ UNCHANGED <<client, pc, method, url, startTime, code, body, queue, reply,
                 stalled, log, before, insertedId, failure, sawStall,
                 table, nextId, now, scripts>>

\* await setupTable(client) rejects.
SetupTableFail ==
  /\ phase = "setup"
  /\ phase' = StartupRejected
  /\ UNCHANGED <<client, pc, method, url, startTime, code, body, queue, reply,
                 stalled, log, before, insertedId, failure, sawStall, db, now, scripts>>

\* ------------------------------------------------------------- requestHandler
\* console.log(new Date(), '-- Handled request:', req.method, req.url, responseCode)
\* The line keeps the method, the url and the status; rid names the request it was
\* written for, and the date that leads the line is left out.
LogLine(r, m, u, responseCode) ==
  [rid |-> r, method |-> m, url |-> u, code |-> responseCode]

\* jsonResponse(responseObject, responseCode): writeHead, end, console.log.
JsonResponse(r, m, u, responseObject, responseCode) ==
  /\ code' = [code EXCEPT ![r] = responseCode]
  /\ body' = [body EXCEPT ![r] = responseObject]
  /\ log' = Append(log, LogLine(r, m, u, responseCode))
  /\ pc' = [pc EXCEPT ![r] = "done"]

\* (a router whose last branch inserts)
RouteUnknownAsAdd(pathname, name) ==
  IF pathname = "" \/ pathname = "/"
    THEN [query |-> TRUE, text |-> SelectAllSql, params |-> <<>>]
  ELSE IF pathname = "/read"
    THEN [query |-> TRUE, text |-> SelectByNameSql, params |-> <<name>>]
  ELSE [query |-> TRUE, text |-> InsertSql, params |-> <<name>>]
\* (a router whose last branch reads the table first)
RouteUnknownAsAll(pathname, name) ==
  IF pathname = "/read"
    THEN [query |-> TRUE, text |-> SelectByNameSql, params |-> <<name>>]
  ELSE IF pathname = "/add"
    THEN [query |-> TRUE, text |-> InsertSql, params |-> <<name>>]
  ELSE [query |-> TRUE, text |-> SelectAllSql, params |-> <<>>]
\* The routing of the try block: the query a pathname leads to, or none.
Route(pathname, name) ==
  IF pathname = "" \/ pathname = "/"
    THEN [query |-> TRUE, text |-> SelectAllSql, params |-> <<>>]
  ELSE IF pathname = "/read"
    THEN [query |-> TRUE, text |-> SelectByNameSql, params |-> <<name>>]
  ELSE IF pathname = "/add"
    THEN [query |-> TRUE, text |-> InsertSql, params |-> <<name>>]
  ELSE [query |-> FALSE, text |-> "", params |-> <<>>]

\* What an unhandled rejection of the handler's promise does to the process:
\* it goes on (a warning only) or it is terminated, depending on the Node version.
UnhandledRejection == {"listening", "crashed"}

\* A request arrives and the handler runs up to its first await, or to its end.
Arrive(r, m, u) ==
  /\ phase = "listening"
  /\ pc[r] = "new"
  /\ r > 1 => pc[r - 1] # "new"
  /\ method' = [method EXCEPT ![r] = m]
  /\ url' = [url EXCEPT ![r] = u]
  /\ startTime' = [startTime EXCEPT ![r] = now]
  /\ before' = [before EXCEPT ![r] = Done]
  /\ sawStall' = [sawStall EXCEPT ![r] = stalled]
  /\ UNCHANGED <<client, reply, stalled, insertedId, failure, db, now, scripts>>
  /\ LET p == ParseURL(u)
         rt == Route(p.pathname, NameOf(p))
     IN IF ~p.ok
          THEN \* new URL(...) throws outside the try block
               /\ pc' = [pc EXCEPT ![r] = "rejected"]
               /\ phase' \in UnhandledRejection
               /\ UNCHANGED <<code, body, log, queue>>
        ELSE IF rt.query
          THEN /\ queue' = Append(queue, [rid |-> r, text |-> rt.text, params |-> rt.params])
               /\ pc' = [pc EXCEPT ![r] = "awaiting"]
               /\ UNCHANGED <<phase, code, body, log>>
        ELSE /\ JsonResponse(r, m, u, NotFoundBody, 404)
             /\ UNCHANGED <<phase, queue>>

\* ------------------------------------------------------------- the session
\* The object the handler answers a resolved query with.
SuccessResponse(q, rows, rowCount, name) ==
  IF q.text = InsertSql THEN SuccessBody(rowCount, name) ELSE ArrayBody(rows)

\* The status of the catch block.
CatchCode == 500

\* The session after its active query has settled: the next query becomes active.
Settled(qs) == Tail(qs)

\* What the database answers the active query with: nothing yet, the result
\* {rows, rowCount}, or an error.
NoReply == [st |-> "none", rows |-> <<>>, rowCount |-> 0, msg |-> ""]
Resolved(rows, rowCount) == [st |-> "ok", rows |-> rows, rowCount |-> rowCount, msg |-> ""]
Rejected(msg) == [st |-> "error", rows |-> <<>>, rowCount |-> 0, msg |-> msg]

\* The database runs the active query of the session, while the handler that sent
\* it waits in await client.query and the event loop serves other requests.
DbExecutes ==
  /\ phase = "listening"
  /\ queue # <<>>
  /\ ~stalled
  /\ reply.st = "none"
  /\ LET q == Head(queue)
         r == q.rid
     IN /\ IF q.text = InsertSql
             THEN /\ table' = InsertRow(table, q.params[1], nextId, now)
                  /\ nextId' = nextId + 1
                  /\ insertedId' = [insertedId EXCEPT ![r] = nextId]
             ELSE UNCHANGED <<table, nextId, insertedId>>
        /\ reply' = Resolved(QueryRows(q, table), QueryRowCount(q, table))
  /\ UNCHANGED <<phase, client, pc, method, url, startTime, code, body, queue, stalled,
                 log, before, failure, sawStall, tableExists, now, scripts>>

\* The active query of the session fails with an error, and stores nothing.
DbFails(msg) ==
  /\ phase = "listening"
  /\ queue # <<>>
  /\ ~stalled
  /\ reply.st = "none"
  /\ reply' = Rejected(msg)
  /\ UNCHANGED <<phase, client, pc, method, url, startTime, code, body, queue, stalled,
                 log, before, insertedId, failure, sawStall, db, now, scripts>>

\* await client.query resolves with the result; the handler runs to its end:
\* jsonResponse of its branch. The next query of the session becomes active.
QueryResolves ==
  /\ phase = "listening"
  /\ queue # <<>>
  /\ ~stalled
  /\ reply.st = "ok"
  /\ LET q == Head(queue)
         r == q.rid
         name == NameOf(ParseURL(url[r]))
     IN JsonResponse(r, method[r], url[r],
                     SuccessResponse(q, reply.rows, reply.rowCount, name), 200)
  /\ queue' = Settled(queue)
  /\ reply' = NoReply
  /\ UNCHANGED <<phase, client, method, url, startTime, stalled, before, insertedId,
                 failure, sawStall, db, now, scripts>>

\* await client.query rejects with the error; the handler runs its catch block.
\* The next query of the session becomes active.
QueryRejects ==
  /\ phase = "listening"
  /\ queue # <<>>
  /\ ~stalled
  /\ reply.st = "error"
  /\ LET r == Head(queue).rid
     IN /\ JsonResponse(r, method[r], url[r], ErrorBody(reply.msg), CatchCode)
        /\ failure' = [failure EXCEPT ![r] = reply.msg]
  /\ queue' = Settled(queue)
  /\ reply' = NoReply
  /\ UNCHANGED <<phase, client, method, url, startTime, stalled, before, insertedId,
                 sawStall, db, now, scripts>>

\* The active query never completes (no timeout, no cancellation).
Stall ==
  /\ phase = "listening"
  /\ queue # <<>>
  /\ ~stalled
  /\ stalled' = TRUE
  /\ UNCHANGED <<phase, client, pc, method, url, startTime, code, body, queue, reply,
                 log, before, insertedId, failure, sawStall, db, now, scripts>>

\* ------------------------------------------------------------- the scripts
\* A script starts with its argument and connects: await getClient().
ScriptConnect(s, k, a) ==
  /\ spc[s] = "idle"
  /\ s > 1 => spc[s - 1] # "idle"
  /\ spc' = [spc EXCEPT ![s] = "connected"]
  /\ skind' = [skind EXCEPT ![s] = k]
  /\ sarg' = [sarg EXCEPT ![s] = a]
  /\ UNCHANGED <<squeried, sended, sout, sres, srv, db, now>>

\* The lines read-data prints for its rows: the keys of the first row, then the rows.
\* Object.keys(entries.rows?.[0]) throws a TypeError when there is no first row.
ReadDataThrows(rows) == rows = <<>>

\* What the database answers a script's statement with: the result {rows, rowCount},
\* or a rejection (relation "my_table" does not exist).
NoResult == [ok |-> FALSE, rows |-> <<>>, rowCount |-> 0]
Result(rows, rowCount) == [ok |-> TRUE, rows |-> rows, rowCount |-> rowCount]

\* The database executes the statement the script sent with client.query, while the
\* script waits in its await.
ScriptQueryExecutes(s) ==
  /\ spc[s] = "connected"
  /\ LET k == skind[s]
         n == ArgName(sarg[s])
     IN IF k = "setup-table"
          THEN \* CREATE TABLE IF NOT EXISTS my_table(...)
               /\ tableExists' = TRUE
               /\ sres' = [sres EXCEPT ![s] = Result(<<>>, 0)]
               /\ UNCHANGED <<table, nextId>>
        ELSE IF ~tableExists
          THEN /\ sres' = [sres EXCEPT ![s] = NoResult]
               /\ UNCHANGED db
        ELSE IF k = "add-data"
          THEN /\ table' = InsertRow(table, n, nextId, now)
               /\ nextId' = nextId + 1
               /\ sres' = [sres EXCEPT ![s] = Result(<<>>, 1)]
               /\ UNCHANGED tableExists
        ELSE \* read-data
             LET rows == SelectByName(table, n)
             IN /\ sres' = [sres EXCEPT ![s] = Result(rows, Len(rows))]
                /\ UNCHANGED db
  /\ spc' = [spc EXCEPT ![s] = "answered"]
  /\ UNCHANGED <<skind, sarg, squeried, sended, sout, srv, now>>

\* The await of client.query settles and the script runs on: a rejection ends it; a
\* result is logged and client.end() is called, unless read-data throws before.
ScriptContinues(s) ==
  /\ spc[s] = "answered"
  /\ LET k == skind[s]
         n == ArgName(sarg[s])
         res == sres[s]
     IN IF ~res.ok
          THEN /\ spc' = [spc EXCEPT ![s] = "crashed"]
               /\ UNCHANGED <<squeried, sended, sout>>
        ELSE IF k = "setup-table"
          THEN /\ squeried' = [squeried EXCEPT ![s] = TRUE]
               /\ sout' = [sout EXCEPT ![s] = <<"Created table.">>]
               /\ sended' = [sended EXCEPT ![s] = TRUE]
               /\ spc' = [spc EXCEPT ![s] = "ending"]
        ELSE IF k = "add-data"
          THEN /\ squeried' = [squeried EXCEPT ![s] = TRUE]
               /\ sout' = [sout EXCEPT ![s] =
                            <<"Inserted " \o IntStr(res.rowCount) \o " row">>]
               /\ sended' = [sended EXCEPT ![s] = TRUE]
               /\ spc' = [spc EXCEPT ![s] = "ending"]
        ELSE \* read-data
             LET first == "Database entries for " \o n \o ": "
                            \o IntStr(res.rowCount) \o " row(s)"
             IN /\ squeried' = [squeried EXCEPT ![s] = TRUE]
                /\ IF ReadDataThrows(res.rows)
                     THEN /\ sout' = [sout EXCEPT ![s] = <<first>>]
                          /\ spc' = [spc EXCEPT ![s] = "crashed"]
                          /\ UNCHANGED sended
                     ELSE /\ sout' = [sout EXCEPT ![s] =
                                       <<first, "id\tname\tdate", res.rows>>]
                          /\ sended' = [sended EXCEPT ![s] = TRUE]
                          /\ spc' = [spc EXCEPT ![s] = "ending"]
  /\ UNCHANGED <<skind, sarg, sres, srv, db, now>>

\* await client.end() resolves and the script finishes.
ScriptEndResolves(s) ==
  /\ spc[s] = "ending"
  /\ spc' = [spc EXCEPT ![s] = "done"]
  /\ UNCHANGED <<skind, sarg, squeried, sended, sout, sres, srv, db, now>>

\* await client.end() rejects: the script has no handler and ends there.
ScriptEndRejects(s) ==
  /\ spc[s] = "ending"
  /\ spc' = [spc EXCEPT ![s] = "crashed"]
  /\ UNCHANGED <<skind, sarg, squeried, sended, sout, sres, srv, db, now>>

\* ------------------------------------------------------------- specification
\* The server of index.js, with a database that answers every query.
Next ==
  \/ Tick
  \/ GetClientOk
  \/ GetClientFail
  \/ SetupTableOk
  \/ SetupTableFail
  \/ \E r \in Req, in \in Requests : Arrive(r, in[1], in[2])
  \/ DbExecutes
  \/ \E msg \in ErrMsgs : DbFails(msg)
  \/ QueryResolves
  \/ QueryRejects

Spec == Init /\ [][Next]_vars

\* The server with a database call that may never complete.
StallNext == Next \/ Stall

\* The database answers the active query of the session unless it is stalled, and
\* the event loop runs the continuation of the handler that awaits it.
QuerySettles ==
  \/ DbExecutes
  \/ \E msg \in ErrMsgs : DbFails(msg)
  \/ QueryResolves
  \/ QueryRejects

StallSpec == Init /\ [][StallNext]_vars /\ WF_vars(QuerySettles)

\* The server with a database that answers every query, and an event loop that
\* runs the continuation of every settled query.
LiveNext ==
  \/ Tick
  \/ GetClientOk
  \/ GetClientFail
  \/ SetupTableOk
  \/ SetupTableFail
  \/ \E r \in 1..NumLiveRequests, in \in Requests : Arrive(r, in[1], in[2])
  \/ DbExecutes
  \/ \E msg \in ErrMsgs : DbFails(msg)
  \/ QueryResolves
  \/ QueryRejects

LiveSpec == Init /\ [][LiveNext]_vars /\ WF_vars(QuerySettles)

\* The command-line scripts.
ScriptNext ==
  \/ Tick
  \/ \E s \in Scr, k \in Kinds, a \in Args : ScriptConnect(s, k, a)
  \/ \E s \in Scr : ScriptQueryExecutes(s)
  \/ \E s \in Scr : ScriptContinues(s)
  \/ \E s \in Scr : ScriptEndResolves(s)
  \/ \E s \in Scr : ScriptEndRejects(s)

ScriptSpec == Init /\ [][ScriptNext]_vars

\* ------------------------------------------------------------- reading the state
Arrived(r) == pc[r] # "new"
Parsed(r) == ParseURL(url[r])
PathOf(r) == Parsed(r).pathname
IsAdd(r) == Arrived(r) /\ Parsed(r).ok /\ PathOf(r) = "/add"
IsRead(r) == Arrived(r) /\ Parsed(r).ok /\ PathOf(r) = "/read"
IsAll(r) == Arrived(r) /\ Parsed(r).ok /\ PathOf(r) \in {"", "/"}
IsUnknown(r) == Arrived(r) /\ Parsed(r).ok /\ PathOf(r) \notin {"", "/", "/read", "/add"}
Answered(r, c) == pc[r] = "done" /\ code[r] = c
LinesOf(r) == {i \in 1..Len(log) : log[i].rid = r}
Queued(r) == \E i \in 1..Len(queue) : queue[i].rid = r
Contains(text, part) ==
  \E i \in 1..Len(text) : \E j \in i..Len(text) : SubSeq(text, i, j) = part
RowsOf(b) == {b.rows[i] : i \in 1..Len(b.rows)}

\* ------------------------------------------------------------- C1
\* A request whose query was rejected is answered 500 with a JSON string that embeds
\* the error's message, and logged once.
C1_FailureAnswered ==
  \A r \in Req : failure[r] # "" =>
    /\ Answered(r, 500)
    /\ body[r].type = "string"
    /\ Contains(body[r].text, failure[r])
    /\ Cardinality(LinesOf(r)) = 1
    /\ ~Queued(r)

\* The step that answers a rejected query leaves the process listening on its session.
C1_FailureKeepsServing ==
  \A r \in Req : failure[r] = "" /\ failure'[r] # "" =>
    phase' = "listening" /\ client' = "session"

\* Every request that waits for its query is answered in the end (unless the
\* process is terminated by an unhandled rejection, see C2).
C1_AwaitingIsAnswered ==
  \A r \in Req : (pc[r] = "awaiting") ~> (pc[r] = "done" \/ phase = "crashed")

\* C1: a failed data operation of '/', '/read' or '/add' is caught and answered with
\* status 500 and a JSON string embedding the failure's message, and the process
\* keeps serving: requests arriving afterwards are dispatched and answered.
C1_FailureIs500AndServingGoesOn ==
  /\ []C1_FailureAnswered
  /\ [][C1_FailureKeepsServing]_vars
  /\ C1_AwaitingIsAnswered

\* A request that arrived after a failure had been answered 500 got its 200.
C1_Witness ==
  \E r1, r2 \in Req :
    /\ failure[r1] # "" /\ Answered(r1, 500)
    /\ r1 \in before[r2]
    /\ Answered(r2, 200)

\* ------------------------------------------------------------- C2
\* C2: every request the handler received and finished with is answered, and logged
\* exactly once with its method, its url and the status that was sent.
C2_EveryRequestLoggedOnce ==
  \A r \in Req : pc[r] \in {"done", "rejected"} =>
    /\ code[r] \in {200, 404, 500}
    /\ Cardinality(LinesOf(r)) = 1
    /\ \A i \in LinesOf(r) :
         log[i].method = method[r] /\ log[i].url = url[r] /\ log[i].code = code[r]

\* ------------------------------------------------------------- C3
\* The name a request target asks for, read off the target itself.
AsksFor(u, route, X) == u = route \o "?name=" \o X \/ (X = "john" /\ u = route)

\* C3: two '/add' requests on the shared session, neither rejected by the database,
\* both answer 200 with success; each created its own row, with its own id and a date
\* not earlier than its arrival; and a '/' fetch made after both were answered holds
\* both rows.
C3_ConcurrentAddsBothStored ==
  \A a, b \in Req :
    (a < b /\ pc[a] = "done" /\ pc[b] = "done" /\ failure[a] = "" /\ failure[b] = ""
       /\ IsAdd(a) /\ IsAdd(b)) =>
      /\ Answered(a, 200) /\ body[a].type = "object" /\ body[a].success
      /\ Answered(b, 200) /\ body[b].type = "object" /\ body[b].success
      /\ insertedId[a] > 0 /\ insertedId[b] > 0 /\ insertedId[a] # insertedId[b]
      /\ \A f \in Req :
           (Answered(f, 200) /\ {a, b} \subseteq before[f] /\ IsAll(f)) =>
             /\ body[f].type = "array"
             /\ \A i, j \in 1..Len(body[f].rows) :
                  i # j => body[f].rows[i].id # body[f].rows[j].id
             /\ \A x \in {a, b} : \E row \in RowsOf(body[f]) :
                  /\ row.id = insertedId[x]
                  /\ \E X \in Names : AsksFor(url[x], "/add", X) /\ row.name = X
                  /\ row.date >= startTime[x]

\* Two adds with different names were in flight together, and a later '/' saw both.
C3_Witness ==
  \E a, b, f \in Req :
    /\ a < b /\ IsAdd(a) /\ IsAdd(b) /\ url[a] # url[b]
    /\ a \notin before[b]
    /\ Answered(a, 200) /\ Answered(b, 200)
    /\ IsAll(f) /\ Answered(f, 200) /\ {a, b} \subseteq before[f]
    /\ Len(body[f].rows) = 2

\* ------------------------------------------------------------- C5
AddsAnsweredBefore(f) == {a \in before[f] : IsAdd(a) /\ Answered(a, 200)}

\* A successful '/' holds at least as many rows as adds answered with success before it.
C5_AllCountsAdds ==
  \A f \in Req : (IsAll(f) /\ Answered(f, 200)) =>
    body[f].type = "array" /\ Len(body[f].rows) >= Cardinality(AddsAnsweredBefore(f))

\* No step updates or removes a stored row.
C5_RowsOnlyAdded ==
  /\ Len(table') >= Len(table)
  /\ \A i \in 1..Len(table) : table'[i] = table[i]

\* C5: a successful '/' returns an array at least as long as the number of '/add'
\* requests answered with success before it, and no step of any route updates or
\* removes an existing record.
C5_RecordsOnlyCreated == []C5_AllCountsAdds /\ [][C5_RowsOnlyAdded]_vars

\* A '/' answered after two adds had been answered with success.
C5_Witness ==
  \E f \in Req :
    /\ IsAll(f) /\ Answered(f, 200)
    /\ Cardinality(AddsAnsweredBefore(f)) = 2
    /\ Len(body[f].rows) = 2

\* ------------------------------------------------------------- C6
\* C6: a '/read?name=X' that arrives after a '/add?name=X' was answered with success,
\* and whose query is not rejected, answers 200 with a non-empty array holding a
\* record named X.
C6_AddThenReadFindsName ==
  \A a, rd \in Req : \A X \in Names :
    (/\ pc[rd] = "done" /\ failure[rd] = "" /\ a \in before[rd] /\ Answered(a, 200)
     /\ AsksFor(url[a], "/add", X)
     /\ AsksFor(url[rd], "/read", X)) =>
      /\ Answered(rd, 200)
      /\ body[rd].type = "array"
      /\ \E row \in RowsOf(body[rd]) : row.name = X

\* An add of bob, another request in between, then a read of bob that found it.
C6_Witness ==
  \E a, o, rd \in Req :
    /\ a < o /\ o < rd
    /\ url[a] = "/add?name=bob" /\ Answered(a, 200)
    /\ url[rd] = "/read?name=bob" /\ a \in before[rd] /\ Answered(rd, 200)
    /\ Len(body[rd].rows) >= 1

\* ------------------------------------------------------------- C7
\* The listener is bound only with the session acquired and the table created.
C7_ListeningNeedsStartup == phase = "listening" => client = "session" /\ tableExists

\* After a startup failure no request is served.
C7_FailedServesNothing ==
  phase = "failed" => log = <<>> /\ \A r \in Req : pc[r] = "new"

\* A failed startup stays failed, and the listener is bound by the step that ends
\* the table creation, and by no other.
C7_StartupSteps ==
  /\ phase = "failed" => phase' = "failed"
  /\ (phase # "listening" /\ phase' = "listening") =>
       phase = "setup" /\ client = "session" /\ tableExists'

\* C7: a startup failure is fatal: when acquiring the session or creating the table
\* fails the listener is never bound and no request is served; the listener is bound
\* only after both have completed.
C7_StartupFailureIsFatal ==
  /\ []C7_ListeningNeedsStartup
  /\ []C7_FailedServesNothing
  /\ [][C7_StartupSteps]_vars

\* The table creation failed on an acquired session.
C7_Witness == phase = "failed" /\ client = "session" /\ ~tableExists

\* ------------------------------------------------------------- C8
\* A request to an unknown path is answered 404 with a JSON string, logged once, and
\* has no query on the session.
C8_UnknownIs404 ==
  \A r \in Req : IsUnknown(r) =>
    /\ Answered(r, 404)
    /\ body[r].type = "string"
    /\ Cardinality(LinesOf(r)) = 1
    /\ ~Queued(r) /\ insertedId[r] = 0 /\ failure[r] = ""

\* The step that handles a request to an unknown path leaves the database and the
\* session as they were.
C8_UnknownTouchesNothing ==
  \A r \in Req : (pc[r] = "new" /\ IsUnknown(r)') =>
    table' = table /\ nextId' = nextId /\ tableExists' = tableExists /\ queue' = queue

\* C8: a request whose path is none of '', '/', '/read', '/add' is answered 404 with
\* a JSON string, issues no database operation and leaves the stored records
\* unchanged, whatever its query parameters.
C8_UnknownPathIs404 == []C8_UnknownIs404 /\ [][C8_UnknownTouchesNothing]_vars

\* '/delete?name=bob' was answered 404 while a row of bob is stored.
C8_Witness ==
  \E r \in Req :
    /\ IsUnknown(r) /\ Answered(r, 404)
    /\ \E i \in 1..Len(table) : table[i].name = "bob"

\* ------------------------------------------------------------- C9
\* The step in which the database runs the SELECT of a '/read?name=Y': the result
\* is exactly the stored rows named Y, and the table is left alone.
C9_ReadRuns ==
  \A r \in Req : \A Y \in Names :
    (/\ Arrived(r) /\ AsksFor(url[r], "/read", Y)
     /\ pc[r] = "awaiting" /\ Head(queue).rid = r
     /\ reply.st = "none" /\ reply'.st = "ok") =>
      /\ table' = table
      /\ LET rows == reply'.rows
             named == {j \in 1..Len(table) : table[j].name = Y}
         IN /\ \A i \in 1..Len(rows) : rows[i].name = Y
            /\ \A j \in named : \E i \in 1..Len(rows) : rows[i] = table[j]
            /\ \A i \in 1..Len(rows) : \E j \in named : rows[i] = table[j]
            /\ Len(rows) = Cardinality(named)
            /\ named = {} => rows = <<>>

\* The step that answers a '/read?name=Y' with 200: it answers with the array of the
\* rows the database returned, which are still the stored rows named Y, and leaves
\* the table alone.
C9_ReadStep ==
  \A r \in Req : \A Y \in Names :
    (/\ Arrived(r) /\ AsksFor(url[r], "/read", Y)
     /\ pc[r] = "awaiting" /\ pc'[r] = "done" /\ code'[r] = 200) =>
      /\ table' = table
      /\ body'[r].type = "array"
      /\ body'[r].rows = reply.rows
      /\ LET rows == body'[r].rows
             named == {j \in 1..Len(table) : table[j].name = Y}
         IN /\ \A i \in 1..Len(rows) : rows[i].name = Y
            /\ \A j \in named : \E i \in 1..Len(rows) : rows[i] = table[j]
            /\ \A i \in 1..Len(rows) : \E j \in named : rows[i] = table[j]
            /\ Len(rows) = Cardinality(named)
            /\ named = {} => rows = <<>>

\* C9: a successful '/read?name=Y' answers with exactly the stored rows named Y, each
\* once and no other row; with the empty array and status 200 when no row is named Y;
\* and it leaves the stored rows unchanged.
C9_ReadReturnsExactlyTheNamed == [][C9_ReadRuns /\ C9_ReadStep]_vars

\* A read of a name that no stored row has was answered 200 with the empty array,
\* and another read was answered with rows.
C9_Witness ==
  \E r, o \in Req :
    /\ IsRead(r) /\ Answered(r, 200) /\ body[r].rows = <<>>
    /\ Len(table) >= 1
    /\ \A Y \in Names : AsksFor(url[r], "/read", Y) =>
         \A j \in 1..Len(table) : table[j].name # Y
    /\ IsRead(o) /\ Answered(o, 200) /\ Len(body[o].rows) >= 1

\* ------------------------------------------------------------- C4
\* C4 as stated: while a database call never completes, every other request that
\* waits for its own query still receives its response.
C4_OthersStillAnswered ==
  \A r \in Req :
    (stalled /\ pc[r] = "awaiting" /\ Head(queue).rid # r)
      ~> (pc[r] = "done" \/ phase = "crashed")

\* A request to an unknown path is answered at once, stalled session or not.
C4_UnknownAnswered == \A r \in Req : IsUnknown(r) => Answered(r, 404)

\* While the active query of the session is stalled, the session stays stalled, no
\* waiting request is answered, and the only requests answered are those that
\* arrive for an unknown path.
C4_StalledStep ==
  stalled =>
    /\ stalled'
    /\ \A r \in Req :
         /\ pc[r] = "awaiting" => pc'[r] = "awaiting"
         /\ (pc[r] # "done" /\ pc'[r] = "done") => (pc[r] = "new" /\ code'[r] = 404)
         /\ (pc[r] = "new" /\ pc'[r] # "new" /\ (IsAdd(r) \/ IsRead(r) \/ IsAll(r))')
              => pc'[r] = "awaiting"

\* C4, amended: a database call that never completes stalls the shared session: the
\* request that issued it and every request whose query waits behind it, in flight
\* or arriving later, get no response; requests that issue no database operation
\* (unknown paths) are still answered, with 404.
C4_StallBlocksTheSession == []C4_UnknownAnswered /\ [][C4_StalledStep]_vars

\* The session is stalled, a request that arrived during the stall waits behind the
\* stalled query, and one that arrived during the stall was answered 404.
C4_Witness ==
  /\ stalled
  /\ \E r \in Req : sawStall[r] /\ pc[r] = "awaiting" /\ Head(queue).rid # r
  /\ \E r \in Req : sawStall[r] /\ Answered(r, 404)

\* ------------------------------------------------------------- C10
\* C10: a script that connected and ran its query has closed its session with end()
\* when it finishes.
C10_ScriptsEndTheirSession ==
  \A s \in Scr : (squeried[s] /\ spc[s] \in {"done", "crashed"}) => sended[s]

====
